---- MODULE Spec2Model ----
(***************************************************************************)
(* Black-Scholes pricing, Greeks and implied volatility                    *)
(* (src/option_price_black_scholes.py).                                    *)
(*                                                                         *)
(* Numbers.  A Python float x is represented by the integer round(x*10^6): *)
(* fixed point with six decimals.  Every arithmetic operator rounds its    *)
(* result to the nearest representable number, as float arithmetic does.   *)
(* Products and quotients are computed in limbs so that no intermediate    *)
(* value leaves the 32-bit range of the model checker's integers; operands *)
(* stay below 1000.0 in magnitude.                                         *)
(*                                                                         *)
(* Outcomes.  A Python call either returns a value or raises.  An outcome  *)
(* is a record [kind, v, w, exc]:                                          *)
(*   kind = "num"   a float v                                              *)
(*   kind = "nan"   math.nan                                               *)
(*   kind = "pair"  a tuple (v, w) of floats                               *)
(*   kind = "nanpair" the tuple (math.nan, math.nan)                       *)
(*   kind = "raise" an exception of class exc propagates to the caller     *)
(*   kind = "pending" the call has not returned yet                        *)
(*                                                                         *)
(* scipy's brentq is a library, not code of this module: it is modelled by  *)
(* its contract (both ends evaluated, a root at an end returned at once,    *)
(* ValueError without a sign change, the bracket narrowed to the tolerance  *)
(* within the iteration limit), taking the bisection step every iteration.  *)
(***************************************************************************)
EXTENDS Integers, Sequences, FiniteSets, TLC

VARIABLES op, args, quoted_sigma, pc, result, bracket, iterations

vars == <<op, args, quoted_sigma, pc, result, bracket, iterations>>

----------------------------------------------------------------------------
(* Fixed-point arithmetic.  The primitives are functions on the integers.  *)

Q == 1000000

Abs(x) == IF x < 0 THEN -x ELSE x

Sgn(x) == IF x < 0 THEN -1 ELSE IF x > 0 THEN 1 ELSE 0

\* a * b, rounded to nearest, for 0 <= a, b <= 1000.0
MulPos[a \in Int, b \in Int] ==
  LET ah == a \div 1000
      al == a % 1000
      bh == b \div 1000
      bl == b % 1000
  IN  ah * bh + ((ah * bl + al * bh) + ((al * bl + 500000) \div 1000)) \div 1000

\* Python's float product a * b
Mul[a \in Int, b \in Int] == Sgn(a) * Sgn(b) * MulPos[Abs(a), Abs(b)]

\* n further decimal digits of rem / b (long division), then the rounding digit
DivDigits[acc \in Int, rem \in Int, b \in Int, n \in Nat] ==
  IF n = 0
    THEN IF 2 * rem >= b THEN acc + 1 ELSE acc
    ELSE DivDigits[acc * 10 + ((rem * 10) \div b), (rem * 10) % b, b, n - 1]

\* a / b, rounded to nearest, for a >= 0 and 0 < b <= 200.0
DivPos[a \in Int, b \in Int] == DivDigits[a \div b, a % b, b, 6]

\* Python's float quotient a / b for b # 0
Div[a \in Int, b \in Int] == Sgn(a) * Sgn(b) * DivPos[Abs(a), Abs(b)]

\* a / n for an integer n > 0, rounded to nearest
DivInt[a \in Int, n \in Int] == Sgn(a) * ((2 * Abs(a) + n) \div (2 * n))

\* Newton's iteration for the square root
SqrtIter[x \in Int, y \in Int, n \in Nat] ==
  LET z == (y + DivPos[x, y]) \div 2
  IN  IF n = 0 \/ z = y THEN y ELSE SqrtIter[x, z, n - 1]

\* math.sqrt(x) for x >= 0
Sqrt[x \in Int] == IF x = 0 THEN 0 ELSE SqrtIter[x, IF x > Q THEN x ELSE Q, 40]

Ln2 == 693147

\* sum of z^k / k for odd k from k upwards, zk = z^k
AtanhSeries[z2 \in Int, zk \in Int, k \in Nat, acc \in Int] ==
  IF zk = 0 \/ k > 25 THEN acc
  ELSE AtanhSeries[z2, Mul[zk, z2], k + 2, acc + DivInt[zk, k]]

\* ln x for 0.75 <= x <= 1.5:  2 atanh((x - 1) / (x + 1))
LnCore[x \in Int] ==
  LET z == Div[x - Q, x + Q]
  IN  2 * AtanhSeries[Mul[z, z], z, 1, 0]

\* math.log(x) for x > 0, reducing x to [0.75, 1.5] by powers of two
Ln[x \in Int] ==
  IF x > 1500000 THEN Ln2 + Ln[(x + 1) \div 2]
  ELSE IF x < 750000 THEN Ln[2 * x] - Ln2
  ELSE LnCore[x]

\* sum of x^k / k! from term t = x^k / k! upwards
ExpSeries[x \in Int, t \in Int, k \in Nat, acc \in Int] ==
  IF t = 0 \/ k > 20 THEN acc
  ELSE ExpSeries[x, DivInt[Mul[t, x], k], k + 1, acc + t]

Halve[x \in Int, n \in Nat] == IF n = 0 THEN x ELSE Halve[(x + 1) \div 2, n - 1]

Double[x \in Int, n \in Nat] == IF n = 0 THEN x ELSE Double[2 * x, n - 1]

\* math.exp(x) for x <= 6.0: exp(x) = 2^k exp(x - k ln 2)
Exp[x \in Int] ==
  IF x < -20 * Q THEN 0
  ELSE LET k == IF x >= 0 THEN (x + Ln2 \div 2) \div Ln2
                          ELSE -((-x + Ln2 \div 2) \div Ln2)
           e == ExpSeries[x - k * Ln2, Q, 1, 0]
       IN  IF k >= 0 THEN Double[e, k] ELSE Halve[e, -k]

InvSqrt2Pi == 398942

\* scipy.stats.norm.pdf(x) = exp(-x^2 / 2) / sqrt(2 pi); below 10^-6 beyond |x| = 6
NormPdf[x \in Int] ==
  IF Abs(x) >= 6 * Q THEN 0
  ELSE Mul[InvSqrt2Pi, Exp[-(Mul[x, x] \div 2)]]

\* the upper tail 1 - cdf(x) for x >= 0 (Abramowitz and Stegun 26.2.17)
NormTail[x \in Int] ==
  LET t == Div[Q, Q + Mul[231642, x]]
      poly == Mul[t, 319382 + Mul[t, -356564 + Mul[t, 1781478
                 + Mul[t, -1821256 + Mul[t, 1330274]]]]]
  IN  Mul[NormPdf[x], poly]

\* scipy.stats.norm.cdf(x); 0 or 1 to six decimals beyond |x| = 6
NormCdf[x \in Int] ==
  IF x >= 6 * Q THEN Q
  ELSE IF x <= -6 * Q THEN 0
  ELSE IF x >= 0 THEN Q - NormTail[x]
  ELSE NormTail[-x]

----------------------------------------------------------------------------
(* Outcomes of a Python call *)

Num(x) == [kind |-> "num", v |-> x, w |-> 0, exc |-> "none"]

Nan == [kind |-> "nan", v |-> 0, w |-> 0, exc |-> "none"]

Pair(x, y) == [kind |-> "pair", v |-> x, w |-> y, exc |-> "none"]

NanPair == [kind |-> "nanpair", v |-> 0, w |-> 0, exc |-> "none"]

Raise(e) == [kind |-> "raise", v |-> 0, w |-> 0, exc |-> e]

\* the call has not returned yet
Pending == [kind |-> "pending", v |-> 0, w |-> 0, exc |-> "none"]

Outcome == [kind : STRING, v : Int, w : Int, exc : STRING]

IsRaise(o) == o.kind = "raise"

----------------------------------------------------------------------------
(* Pricing Engine *)

\* d1 = (math.log(S / K) + (r + 0.5 * sigma**2) * T) / (sigma * math.sqrt(T)),
\* with the exceptions Python raises in evaluation order: S / K, math.log,
\* math.sqrt, then the division
D1[S \in Int, K \in Int, r \in Int, T \in Int, sigma \in Int] ==
  IF K = 0 THEN Raise("ZeroDivisionError")
  ELSE IF Div[S, K] <= 0 THEN Raise("ValueError")
  ELSE IF T < 0 THEN Raise("ValueError")
  ELSE IF Mul[sigma, Sqrt[T]] = 0 THEN Raise("ZeroDivisionError")
  ELSE Num(Div[Ln[Div[S, K]] + Mul[r + Mul[500000, Mul[sigma, sigma]], T],
               Mul[sigma, Sqrt[T]]])

\* d2 = d1 - sigma * math.sqrt(T)
D2[d1 \in Int, T \in Int, sigma \in Int] == d1 - Mul[sigma, Sqrt[T]]

\* call_price = S * norm.cdf(d1) - K * math.exp(-r * T) * norm.cdf(d2)
call_price[S \in Int, K \in Int, r \in Int, T \in Int, d1 \in Int, d2 \in Int] ==
  Mul[S, NormCdf[d1]] - Mul[Mul[K, Exp[-Mul[r, T]]], NormCdf[d2]]

\* put_price = K * math.exp(-r * T) * norm.cdf(-d2) - S * norm.cdf(-d1)
put_price[S \in Int, K \in Int, r \in Int, T \in Int, d1 \in Int, d2 \in Int] ==
  Mul[Mul[K, Exp[-Mul[r, T]]], NormCdf[-d2]] - Mul[S, NormCdf[-d1]]

\* the rest of black_scholes_call once d1 is evaluated
CallGivenD1[S \in Int, K \in Int, r \in Int, T \in Int, sigma \in Int, d1 \in Outcome] ==
  IF IsRaise(d1) THEN d1
  ELSE Num(call_price[S, K, r, T, d1.v, D2[d1.v, T, sigma]])

\* the rest of black_scholes_put once d1 is evaluated
PutGivenD1[S \in Int, K \in Int, r \in Int, T \in Int, sigma \in Int, d1 \in Outcome] ==
  IF IsRaise(d1) THEN d1
  ELSE Num(put_price[S, K, r, T, d1.v, D2[d1.v, T, sigma]])

\* a plausible slip: a guard that returns the intrinsic value where d1 is undefined
black_scholes_call_guarded(S, K, r, T, sigma) ==
  IF sigma = 0 \/ T = 0 THEN Num(IF S > K THEN S - K ELSE 0)
  ELSE CallGivenD1[S, K, r, T, sigma, D1[S, K, r, T, sigma]]

black_scholes_call(S, K, r, T, sigma) ==
  CallGivenD1[S, K, r, T, sigma, D1[S, K, r, T, sigma]]

black_scholes_put(S, K, r, T, sigma) ==
  PutGivenD1[S, K, r, T, sigma, D1[S, K, r, T, sigma]]

\* vega = S * norm.pdf(d1) * math.sqrt(T)
vega[S \in Int, T \in Int, d1 \in Int] == Mul[Mul[S, NormPdf[d1]], Sqrt[T]]

\* theta of a call
theta_call[S \in Int, K \in Int, r \in Int, T \in Int, sigma \in Int, d1 \in Int, d2 \in Int] ==
  -Div[Mul[Mul[S, NormPdf[d1]], sigma], 2 * Sqrt[T]]
  - Mul[Mul[Mul[r, K], Exp[-Mul[r, T]]], NormCdf[d2]]

\* theta of a put
theta_put[S \in Int, K \in Int, r \in Int, T \in Int, sigma \in Int, d1 \in Int, d2 \in Int] ==
  -Div[Mul[Mul[S, NormPdf[-d1]], sigma], 2 * Sqrt[T]]
  + Mul[Mul[Mul[r, K], Exp[-Mul[r, T]]], NormCdf[-d2]]

\* the else branch of calculate_theta_and_vega once d1 is evaluated; theta
\* stays unbound when opt_type is neither "c" nor "p", and the return
\* statement that reads it raises
GreeksGivenD1[S \in Int, K \in Int, r \in Int, T \in Int, sigma \in Int, opt_type \in STRING, d1 \in Outcome] ==
  IF IsRaise(d1) THEN d1
  ELSE IF opt_type = "c"
    THEN Pair(DivInt[vega[S, T, d1.v], 100],
              DivInt[theta_call[S, K, r, T, sigma, d1.v, D2[d1.v, T, sigma]], 365])
  ELSE IF opt_type = "p"
    THEN Pair(DivInt[vega[S, T, d1.v], 100],
              DivInt[theta_put[S, K, r, T, sigma, d1.v, D2[d1.v, T, sigma]], 365])
  ELSE Raise("UnboundLocalError")

\* a plausible slip: d1 is computed before sigma is tested
calculate_d1_first(S, K, r, T, sigma, opt_type) ==
  IF IsRaise(D1[S, K, r, T, sigma]) THEN D1[S, K, r, T, sigma]
  ELSE IF sigma = 0 THEN NanPair
  ELSE GreeksGivenD1[S, K, r, T, sigma, opt_type, D1[S, K, r, T, sigma]]

calculate_theta_and_vega(S, K, r, T, sigma, opt_type) ==
  IF sigma = 0 THEN NanPair
  ELSE GreeksGivenD1[S, K, r, T, sigma, opt_type, D1[S, K, r, T, sigma]]

----------------------------------------------------------------------------
(* Implied Volatility Solver *)

BracketLo == 10000

BracketHi == 5000000

\* brentq's default iteration limit
MaxIter == 100

\* brentq stops when the bracket is narrower than its tolerance (xtol)
XTol == 2

\* price - market_price, or the exception the pricing raised
Minus[p \in Outcome, m \in Int] == IF IsRaise(p) THEN p ELSE Num(p.v - m)

\* the objective of implied_volatility_call
difference_call(a, x) ==
  Minus[black_scholes_call(a.S, a.K, a.r, a.T, x), a.market_price]

\* the objective of implied_volatility_put
difference_put(a, x) ==
  Minus[black_scholes_put(a.S, a.K, a.r, a.T, x), a.market_price]

difference(o, a, x) ==
  IF o = "implied_volatility_call" THEN difference_call(a, x)
  ELSE difference_put(a, x)

\* a plausible slip: the handler lets the exception through
OnExceptionReraise(e) == [pc |-> "done", result |-> Raise(e)]

\* a plausible slip: the handler starts the search again
OnExceptionRetry(e) == [pc |-> "call", result |-> Pending]

\* except Exception as err: return 0
OnException(e) == [pc |-> "done", result |-> Num(0)]

\* a plausible slip: the root is returned as a fraction, not as a percentage
SolvedFraction(x) == [pc |-> "done", result |-> Num(x)]

\* return implied_volatility*100
Solved(x) == [pc |-> "done", result |-> Num(Mul[x, 100 * Q])]

Searching == [pc |-> "brentq", result |-> Pending]

NoBracket == [xa |-> 0, xb |-> 0, fa |-> 0, fb |-> 0]

Bracket == [xa : Int, xb : Int, fa : Int, fb : Int]

\* brentq on entry, given the objective at the two ends: an exception of the
\* objective propagates; an end that is a root is returned at once; values
\* of the same sign are a ValueError
BrentqStart[fa \in Outcome, fb \in Outcome] ==
  IF IsRaise(fa) THEN [next |-> OnException(fa.exc), bracket |-> NoBracket]
  ELSE IF IsRaise(fb) THEN [next |-> OnException(fb.exc), bracket |-> NoBracket]
  ELSE IF fa.v = 0 THEN [next |-> Solved(BracketLo), bracket |-> NoBracket]
  ELSE IF fb.v = 0 THEN [next |-> Solved(BracketHi), bracket |-> NoBracket]
  ELSE IF Sgn(fa.v) = Sgn(fb.v)
    THEN [next |-> OnException("ValueError"), bracket |-> NoBracket]
  ELSE [next |-> Searching,
        bracket |-> [xa |-> BracketLo, xb |-> BracketHi, fa |-> fa.v, fb |-> fb.v]]

\* a plausible slip: the search starts from sigma_est instead of the fixed lower end
BrentqEnterFromEstimate(o, a) ==
  BrentqStart[difference(o, a, a.sigma_est), difference(o, a, BracketHi)]

\* optimize.brentq(difference, 0.01, 5.0) up to its first iteration
BrentqEnter(o, a) ==
  BrentqStart[difference(o, a, BracketLo), difference(o, a, BracketHi)]

\* the better of the two ends of the bracket (brentq's xcur)
Best(b) == IF Abs(b.fa) <= Abs(b.fb) THEN b.xa ELSE b.xb

Mid(b) == (b.xa + b.xb) \div 2

\* one iteration of brentq, given the objective fm at the point xm inside the
\* bracket: stop when the bracket is within tolerance, else keep the half with
\* the sign change (the bisection step brentq falls back to); the iteration
\* limit is a RuntimeError
BrentqStep[b \in Bracket, n \in Nat, xm \in Int, fm \in Outcome] ==
  IF b.xb - b.xa <= XTol THEN [next |-> Solved(Best(b)), bracket |-> b]
  ELSE IF n >= MaxIter THEN [next |-> OnException("RuntimeError"), bracket |-> b]
  ELSE IF IsRaise(fm) THEN [next |-> OnException(fm.exc), bracket |-> b]
  ELSE IF fm.v = 0 THEN [next |-> Solved(xm), bracket |-> b]
  ELSE IF Sgn(fm.v) = Sgn(b.fa)
    THEN [next |-> Searching, bracket |-> [b EXCEPT !.xa = xm, !.fa = fm.v]]
  ELSE [next |-> Searching, bracket |-> [b EXCEPT !.xb = xm, !.fb = fm.v]]

BrentqIterate(o, a, b, n) == BrentqStep[b, n, Mid(b), difference(o, a, Mid(b))]

\* the iterations of brentq from bracket b on, up to the return
RECURSIVE SearchFrom(_, _, _, _)
SearchFrom(o, a, b, n) ==
  LET e == BrentqIterate(o, a, b, n)
  IN  IF e.next.pc = "done" THEN e.next.result ELSE SearchFrom(o, a, e.bracket, n + 1)

\* implied_volatility_call / implied_volatility_put as a function of the arguments
implied_volatility(o, a) ==
  LET e == BrentqEnter(o, a)
  IN  IF e.next.pc = "done" THEN e.next.result ELSE SearchFrom(o, a, e.bracket, 0)

----------------------------------------------------------------------------
(* Arguments the callers pass *)

SVals == {-100 * Q, 0, 100 * Q}

KVals == {-100 * Q, 0, 10 * Q, 100 * Q}

RVals == {0, 50000}

TVals == {-Q, 0, 250000, Q}

SigmaVals == {0, 50000, 200000, Q}

OptTypes == {"c", "p", "x"}

\* observed premiums: one inside the attainable range, one above it (S + 1)
MarketPrices == {10 * Q, 101 * Q}

\* sigma_est = k * 0.25
MaxEst == 2

SigmaEsts == {k * 250000 : k \in 1..MaxEst}

\* volatilities a premium is quoted at, the ends of the bracket included; at
\* these the six-decimal prices tell two quotes apart exactly when the floats do
QuoteSigmas == {BracketLo, 50000, 200000, BracketHi}

\* the smallest premium that is quoted (0.01)
Tick == 10000

Solvers == {"implied_volatility_call", "implied_volatility_put"}

NoArgs ==
  [S |-> 0, K |-> 0, r |-> 0, T |-> 0, sigma |-> 0, opt_type |-> "-",
   market_price |-> 0, sigma_est |-> 0]

----------------------------------------------------------------------------
(* The module is stateless: a caller picks an operation and its arguments *)

Init ==
  /\ op = "none"
  /\ args = NoArgs
  /\ quoted_sigma = -1
  /\ pc = "start"
  /\ result = Pending
  /\ bracket = NoBracket
  /\ iterations = 0

Call ==
  /\ pc = "start"
  /\ \E S \in SVals, K \in KVals, r \in RVals, T \in TVals, sigma \in SigmaVals :
       /\ op' = "black_scholes_call"
       /\ args' = [NoArgs EXCEPT !.S = S, !.K = K, !.r = r, !.T = T, !.sigma = sigma]
       /\ result' = black_scholes_call(S, K, r, T, sigma)
  /\ pc' = "done"
  /\ UNCHANGED <<quoted_sigma, bracket, iterations>>

Put ==
  /\ pc = "start"
  /\ \E S \in SVals, K \in KVals, r \in RVals, T \in TVals, sigma \in SigmaVals :
       /\ op' = "black_scholes_put"
       /\ args' = [NoArgs EXCEPT !.S = S, !.K = K, !.r = r, !.T = T, !.sigma = sigma]
       /\ result' = black_scholes_put(S, K, r, T, sigma)
  /\ pc' = "done"
  /\ UNCHANGED <<quoted_sigma, bracket, iterations>>

Greeks ==
  /\ pc = "start"
  /\ \E S \in SVals, K \in KVals, r \in RVals, T \in TVals, sigma \in SigmaVals,
        opt_type \in OptTypes :
       /\ op' = "calculate_theta_and_vega"
       /\ args' = [NoArgs EXCEPT !.S = S, !.K = K, !.r = r, !.T = T,
                                 !.sigma = sigma, !.opt_type = opt_type]
       /\ result' = calculate_theta_and_vega(S, K, r, T, sigma, opt_type)
  /\ pc' = "done"
  /\ UNCHANGED <<quoted_sigma, bracket, iterations>>

\* a caller passes an observed premium to a solver
Observe ==
  /\ pc = "start"
  /\ \E o \in Solvers, S \in SVals, K \in KVals, r \in RVals, T \in TVals,
        m \in MarketPrices, e \in SigmaEsts :
       /\ op' = o
       /\ args' = [NoArgs EXCEPT !.S = S, !.K = K, !.r = r, !.T = T,
                                 !.market_price = m, !.sigma_est = e]
  /\ quoted_sigma' = -1
  /\ pc' = "call"
  /\ UNCHANGED <<result, bracket, iterations>>

Price(o, S, K, r, T, sigma) ==
  IF o = "implied_volatility_call" THEN black_scholes_call(S, K, r, T, sigma)
  ELSE black_scholes_put(S, K, r, T, sigma)

\* round trip: a caller prices the option at sigma and passes that premium to
\* the solver of the same option type
Quote ==
  /\ pc = "start"
  /\ \E o \in Solvers, S \in SVals, K \in KVals, r \in RVals, T \in TVals,
        sigma \in QuoteSigmas, e \in SigmaEsts :
       \E p \in {Price(o, S, K, r, T, sigma)} :
           /\ p.kind = "num"
           /\ p.v >= Tick
           /\ op' = o
           /\ args' = [NoArgs EXCEPT !.S = S, !.K = K, !.r = r, !.T = T,
                                     !.market_price = p.v, !.sigma_est = e]
           /\ quoted_sigma' = sigma
  /\ pc' = "call"
  /\ UNCHANGED <<result, bracket, iterations>>

\* implied_volatility_call / implied_volatility_put up to brentq's first iteration
SolverEnter ==
  /\ pc = "call"
  /\ \E e \in {BrentqEnter(op, args)} :
         /\ pc' = e.next.pc
         /\ result' = e.next.result
         /\ bracket' = e.bracket
  /\ UNCHANGED <<op, args, quoted_sigma, iterations>>

\* one iteration of the root search, and the return once it ends
SolverIterate ==
  /\ pc = "brentq"
  /\ \E e \in {BrentqIterate(op, args, bracket, iterations)} :
         /\ pc' = e.next.pc
         /\ result' = e.next.result
         /\ bracket' = e.bracket
  /\ iterations' = iterations + 1
  /\ UNCHANGED <<op, args, quoted_sigma>>

Next ==
  \/ Call
  \/ Put
  \/ Greeks
  \/ Observe
  \/ Quote
  \/ SolverEnter
  \/ SolverIterate

Spec == Init /\ [][Next]_vars

\* a call that has started runs on: no step of the interpreter is starved
FairSpec == Spec /\ WF_vars(Next)

----------------------------------------------------------------------------
(* Properties *)

Returned(o) == pc = "done" /\ op = o

SolverReturned == pc = "done" /\ op \in Solvers

\* the objective at the two ends of the bracket
FLo == difference(op, args, BracketLo)

FHi == difference(op, args, BracketHi)

\* the objective cannot be evaluated
ObjectiveRaises == IsRaise(FLo) \/ IsRaise(FHi)

\* the objective has the same strict sign at both ends of the bracket
NoSignChange ==
  /\ ~ObjectiveRaises
  /\ FLo.v # 0
  /\ FHi.v # 0
  /\ Sgn(FLo.v) = Sgn(FHi.v)

ValidQuote == args.S > 0 /\ args.K > 0 /\ args.T > 0

\* C1: a solver whose objective has no sign change over [0.01, 5.0], or whose
\* objective or search raises, returns the value 0 and raises nothing.
C1_SentinelOnFailure ==
  (SolverReturned /\ (NoSignChange \/ ObjectiveRaises)) => result = Num(0)

C1_Witness ==
  /\ Returned("implied_volatility_put")
  /\ ValidQuote
  /\ NoSignChange
  /\ result = Num(0)

\* the explicit failure the specification asks for; no path of the code makes it
NoSolutionFound == [kind |-> "failure", v |-> 0, w |-> 0, exc |-> "NoSolutionFound"]

\* C2: implied_volatility_call with a market price above every attainable
\* price (S + 1 or more) returns the NoSolutionFound failure, never a number.
C2_NoSolutionFoundAboveMaximum ==
  (Returned("implied_volatility_call") /\ ValidQuote
     /\ args.market_price >= args.S + Q)
  => result = NoSolutionFound

C5_GreeksNanAtZeroSigma ==
  (Returned("calculate_theta_and_vega") /\ args.sigma = 0) => result = NanPair

C5_Witness ==
  /\ Returned("calculate_theta_and_vega")
  /\ args.sigma = 0
  /\ args.S = 0 /\ args.K = 0 /\ args.T < 0 /\ args.opt_type = "x"
  /\ result = NanPair

\* C6: calculate_theta_and_vega with an opt_type other than "c" and "p" fails
\* with an error (whatever its class) and returns no pair.
C6_InvalidOptTypeFails ==
  (Returned("calculate_theta_and_vega") /\ args.opt_type \notin {"c", "p"})
  => result.kind = "raise"

\* C7: every operation called with S <= 0, K <= 0 or T <= 0 fails with an error
\* (whatever its class) and returns no value.
C7_NonPositiveFails ==
  (pc = "done" /\ (args.S <= 0 \/ args.K <= 0 \/ args.T <= 0))
  => result.kind = "raise"

\* C8: black_scholes_call and black_scholes_put with sigma = 0 or T = 0 return
\* no finite price: the outcome is NaN or an exception.
C8_NoFinitePriceAtZero ==
  (pc = "done" /\ op \in {"black_scholes_call", "black_scholes_put"}
     /\ (args.sigma = 0 \/ args.T = 0))
  => result.kind \in {"raise", "nan"}

C8_Witness ==
  /\ Returned("black_scholes_call")
  /\ args.sigma = 0
  /\ ValidQuote
  /\ result = Raise("ZeroDivisionError")

\* C9: every call of a solver returns: the search never takes more than
\* MaxIter iterations and a call that has started ends with a value.
C9_SolverTerminates ==
  /\ [](iterations <= MaxIter)
  /\ (pc = "call") ~> (pc = "done" /\ result.kind = "num")

C9_Witness ==
  /\ SolverReturned
  /\ iterations > 0
  /\ result.kind = "num"
  /\ result.v > 0

\* C10: a solver returns either 0 or 100 times a root inside the bracket, a
\* number in [1.0, 500.0]; 0 is returned only when the search failed; and the
\* value is the one the default sigma_est gives.
C10_SolverRange ==
  SolverReturned =>
    /\ result.kind = "num"
    /\ result.v = 0 \/ (100 * BracketLo <= result.v /\ result.v <= 100 * BracketHi)
    /\ result.v = 0 => (NoSignChange \/ ObjectiveRaises)
    /\ result = implied_volatility(op, [args EXCEPT !.sigma_est = 250000])

C10_Witness ==
  /\ SolverReturned
  /\ args.sigma_est # 250000
  /\ iterations > 0
  /\ result.v > 100 * BracketLo
  /\ result.v < 100 * BracketHi

====
